---- MODULE Spec2Model ----
(***************************************************************************)
(* Model of nbmcp: the notes index (indexer.py), the setup calls of the    *)
(* server (server.py) and the three search backends (searcher.py).         *)
(*                                                                         *)
(* Text is a sequence of tokens (one token per character, or one token for *)
(* a name such as "md"); a path is the text of the path, "/" tokens        *)
(* included.                                                               *)
(***************************************************************************)
EXTENDS Integers, Sequences, FiniteSets, TLC

VARIABLES notes, sources, extensions, use_ripgrep, use_grep, tool_output,
          last, nops

vars == <<notes, sources, extensions, use_ripgrep, use_grep, tool_output,
          last, nops>>

(* ------------------------------ bounds --------------------------------- *)

MaxOps == 4

MaxResults == 2

MaxOutLines == 2

(* ------------------------------- text ---------------------------------- *)

NoneVal == <<"None">>

NL == "\n"

Lower(c) ==
  CASE c = "A" -> "a"
    [] c = "MD" -> "md"
    [] OTHER -> c

LowerStr(s) == [i \in 1..Len(s) |-> Lower(s[i])]

\* needle in hay
Contains(hay, needle) ==
  \E i \in 0..(Len(hay) - Len(needle)) :
     SubSeq(hay, i + 1, i + Len(needle)) = needle

StartsWith(s, p) == Len(s) >= Len(p) /\ SubSeq(s, 1, Len(p)) = p

EndsWith(s, p) ==
  Len(s) >= Len(p) /\ SubSeq(s, Len(s) - Len(p) + 1, Len(s)) = p

\* index of the first token c of s, 0 when there is none
Find(s, c) ==
  IF \E i \in 1..Len(s) : s[i] = c
  THEN CHOOSE i \in 1..Len(s) : s[i] = c /\ \A j \in 1..(i - 1) : s[j] # c
  ELSE 0

\* index of the last token c of s, 0 when there is none
RFind(s, c) ==
  IF \E i \in 1..Len(s) : s[i] = c
  THEN CHOOSE i \in 1..Len(s) : s[i] = c /\ \A j \in (i + 1)..Len(s) : s[j] # c
  ELSE 0

RECURSIVE SplitLines(_)
SplitLines(s) ==
  IF s = <<>> THEN <<>>
  ELSE LET i == Find(s, NL)
       IN IF i = 0 THEN <<s>>
          ELSE <<SubSeq(s, 1, i - 1)>> \o SplitLines(SubSeq(s, i + 1, Len(s)))

RECURSIVE JoinLines(_)
JoinLines(ls) ==
  IF ls = <<>> THEN <<>>
  ELSE IF Len(ls) = 1 THEN ls[1]
  ELSE ls[1] \o <<NL>> \o JoinLines(Tail(ls))

\* str.split(sep, maxsplit)
RECURSIVE Split(_, _, _)
Split(s, sep, maxsplit) ==
  LET i == Find(s, sep)
  IN IF maxsplit = 0 \/ i = 0 THEN <<s>>
     ELSE <<SubSeq(s, 1, i - 1)>> \o Split(SubSeq(s, i + 1, Len(s)), sep, maxsplit - 1)

RECURSIVE LStrip(_, _)
LStrip(s, c) == IF s # <<>> /\ s[1] = c THEN LStrip(Tail(s), c) ELSE s

Digits == {"1", "2"}

DigitVal(d) == IF d = "1" THEN 1 ELSE 2

IsInt(s) == s # <<>> /\ \A i \in 1..Len(s) : s[i] \in Digits

RECURSIVE IntOf(_)
IntOf(s) ==
  IF s = <<>> THEN 0 ELSE 10 * IntOf(SubSeq(s, 1, Len(s) - 1)) + DigitVal(s[Len(s)])

Max(a, b) == IF a >= b THEN a ELSE b

Min(a, b) == IF a <= b THEN a ELSE b

\* Python slice s[start:end] with 0 <= start, 0 <= end <= len(s)
Slice(s, start, end) == SubSeq(s, start + 1, end)

RECURSIVE Perms(_)
Perms(S) ==
  IF S = {} THEN {<<>>}
  ELSE UNION {{<<x>> \o p : p \in Perms(S \ {x})} : x \in S}

RECURSIVE SeqsOfLen(_, _)
SeqsOfLen(S, n) ==
  IF n = 0 THEN {<<>>}
  ELSE {<<x>> \o t : x \in S, t \in SeqsOfLen(S, n - 1)}

SeqsUpTo(S, n) == UNION {SeqsOfLen(S, m) : m \in 0..n}

(* ---------------------------- file system ------------------------------ *)

DirP == <<"/", "p">>

DirQ == <<"/", "q">>

DirAbsent == <<"/", "x">>

PathA == <<"/", "p", "/", "a", ".", "md">>

\* what the directory walk meets, in traversal order
FSEntries ==
  << [path |-> PathA, kind |-> "file", readable |-> TRUE,
      content |-> <<"x", NL, "x", NL, "x", NL, "a", NL, "x", NL, "x">>],
     [path |-> <<"/", "p", "/", "b", ".", "txt">>, kind |-> "file", readable |-> TRUE,
      content |-> <<"A", NL, "b">>],
     [path |-> <<"/", "p", "/", "sub", "/", "c", ".", "md">>, kind |-> "file",
      readable |-> TRUE, content |-> <<>>],
     [path |-> <<"/", "p", "/", "n", ".", "md">>, kind |-> "dir", readable |-> FALSE,
      content |-> <<>>],
     [path |-> <<"/", "q", "/", "d", ".", "md">>, kind |-> "file", readable |-> TRUE,
      content |-> <<"b", "a", NL>>],
     [path |-> <<"/", "q", "/", "e", ".", "MD">>, kind |-> "file", readable |-> TRUE,
      content |-> <<"a">>],
     [path |-> <<"/", "q", "/", "u", ".", "md">>, kind |-> "file", readable |-> FALSE,
      content |-> <<>>] >>

IsDir(path) ==
  \/ path \in {DirP, DirQ, <<"/", "p", "/", "sub">>}
  \/ \E i \in 1..Len(FSEntries) : FSEntries[i].path = path /\ FSEntries[i].kind = "dir"

IsFile(path) ==
  \E i \in 1..Len(FSEntries) : FSEntries[i].path = path /\ FSEntries[i].kind = "file"

FileOf(path) == FSEntries[CHOOSE i \in 1..Len(FSEntries) : FSEntries[i].path = path]

\* Path.resolve() of an absolute path: each ".." cancels the component before it (the
\* model has no links)
RECURSIVE Resolve(_)
Resolve(path) ==
  LET i == Find(path, "..")
  IN IF i < 4 THEN path
     ELSE Resolve(SubSeq(path, 1, i - 3) \o SubSeq(path, i + 2, Len(path)))

\* Path.name
PathName(path) == SubSeq(path, RFind(path, "/") + 1, Len(path))

IsUnder(path, dir) ==
  \/ path = dir
  \/ StartsWith(path, dir \o <<"/">>) /\ Len(path) > Len(dir) + 1

\* Path.relative_to(dir), defined when IsUnder(path, dir); ValueError otherwise
RelativeTo(path, dir) ==
  IF path = dir THEN <<".">> ELSE SubSeq(path, Len(dir) + 2, Len(path))

\* source_dir.rglob("*." + ext), as the sequence of paths in traversal order
RECURSIVE RGlobFrom(_, _, _)
RGlobFrom(dir, ext, i) ==
  IF i > Len(FSEntries) THEN <<>>
  ELSE LET e == FSEntries[i]
       IN (IF /\ e.path # dir
              /\ IsUnder(e.path, dir)
              /\ EndsWith(PathName(e.path), <<".">> \o ext)
           THEN <<e.path>> ELSE <<>>) \o RGlobFrom(dir, ext, i + 1)

RGlob(dir, ext) == RGlobFrom(dir, ext, 1)

(* ------------------------------- index --------------------------------- *)

\* f"{source_name}:{rel_path}"
NoteId(source_name, rel_path) == source_name \o <<":">> \o rel_path

\* position of key in an insertion-ordered dict kept as a sequence, 0 if absent
KeyPos(d, key) ==
  IF \E i \in 1..Len(d) : d[i].key = key
  THEN CHOOSE i \in 1..Len(d) : d[i].key = key
  ELSE 0

\* d[key] = val on an insertion-ordered dict
DictPut(d, key, val) ==
  LET i == KeyPos(d, key)
  IN IF i = 0 THEN Append(d, [key |-> key, val |-> val])
     ELSE [d EXCEPT ![i] = [key |-> key, val |-> val]]

Keys(d) == {d[i].key : i \in 1..Len(d)}

\* ext.lower().lstrip(".")
NormExt(ext) == LStrip(LowerStr(ext), ".")

NormExts(exts) == {NormExt(exts[i]) : i \in 1..Len(exts)}

\* the loop over the files of one glob: is_file, relative_to, notes[note_id] = file_path
RECURSIVE IndexFiles(_, _, _, _)
IndexFiles(nts, source_name, source_dir, files) ==
  IF files = <<>> THEN nts
  ELSE LET file_path == Head(files)
           nts1 == IF IsFile(file_path)
                   THEN DictPut(nts, NoteId(source_name, RelativeTo(file_path, source_dir)),
                                file_path)
                   ELSE nts
       IN IndexFiles(nts1, source_name, source_dir, Tail(files))

\* the loop over the extensions, in the order exts, for one source
RECURSIVE IndexExts(_, _, _, _)
IndexExts(nts, source_name, source_dir, exts) ==
  IF exts = <<>> THEN nts
  ELSE IndexExts(IndexFiles(nts, source_name, source_dir, RGlob(source_dir, Head(exts))),
                 source_name, source_dir, Tail(exts))

\* the loop over self.sources.items()
RECURSIVE IndexAll(_, _, _)
IndexAll(nts, srcs, exts) ==
  IF srcs = <<>> THEN nts
  ELSE IndexAll(IndexExts(nts, Head(srcs).key, Head(srcs).val, exts), Tail(srcs), exts)

\* get_note_path as a lookup with a default
get_note_path_default(note_id) ==
  IF KeyPos(notes, note_id) = 0
  THEN [kind |-> "return", exc |-> "", msg |-> "", value |-> <<>>]
  ELSE [kind |-> "return", exc |-> "", msg |-> "", value |-> notes[KeyPos(notes, note_id)].val]

\* NotesIndex.get_note_path: the path, or the ValueError it raises
get_note_path(note_id) ==
  IF KeyPos(notes, note_id) = 0
  THEN [kind |-> "raise", exc |-> "ValueError", msg |-> "not found in index", value |-> <<>>]
  ELSE [kind |-> "return", exc |-> "", msg |-> "", value |-> notes[KeyPos(notes, note_id)].val]

\* NotesSearcher.read_note
read_note(note_id) ==
  LET file_path == get_note_path(note_id)
  IN IF file_path.kind = "raise" THEN file_path
     ELSE IF IsFile(file_path.value) /\ FileOf(file_path.value).readable
     THEN [kind |-> "return", exc |-> "", msg |-> "", value |-> FileOf(file_path.value).content]
     ELSE [kind |-> "raise", exc |-> "ValueError", msg |-> "Failed to read note", value |-> <<>>]

\* NotesIndex.list_notes
RECURSIVE FilterIds(_, _)
FilterIds(d, query) ==
  IF d = <<>> THEN <<>>
  ELSE (IF Contains(LowerStr(Head(d).key), LowerStr(query)) THEN <<Head(d).key>> ELSE <<>>)
       \o FilterIds(Tail(d), query)

list_notes(query) ==
  IF query = NoneVal \/ query = <<>>
  THEN [i \in 1..Len(notes) |-> notes[i].key]
  ELSE FilterIds(notes, query)

(* ------------------------------ search --------------------------------- *)

\* the cap test off by one
CapReachedLate(count, max_results) == count > max_results

\* if count >= max_results: break
CapReached(count, max_results) == count >= max_results

NoExc == "none"

\* the first line (1-based) whose lowercased text contains query, 0 when the loop ends
\* without a break
RECURSIVE FirstMatchFrom(_, _, _)
FirstMatchFrom(lines, query, i) ==
  IF i > Len(lines) THEN 0
  ELSE IF Contains(LowerStr(lines[i]), query) THEN i
  ELSE FirstMatchFrom(lines, query, i + 1)

\* the context window with one more line before the match
BasicMatchThreeBefore(note_id, content, query) ==
  LET lines == SplitLines(content)
      line_number == FirstMatchFrom(lines, query, 1)
      start == Max(0, line_number - 4)
      end == Min(Len(lines), line_number + 2)
  IN [note_id |-> note_id, line_number |-> line_number,
      context |-> JoinLines(Slice(lines, start, end))]

\* the body of the try block of _basic_search for one readable file
BasicMatch(note_id, content, query) ==
  LET lines == SplitLines(content)
      line_number == FirstMatchFrom(lines, query, 1)
      start == Max(0, line_number - 3)
      end == Min(Len(lines), line_number + 2)
  IN [note_id |-> note_id, line_number |-> line_number,
      context |-> JoinLines(Slice(lines, start, end))]

\* the loop of _basic_search over self.index.notes.items(); query is lowercased
RECURSIVE BasicLoop(_, _, _, _, _, _)
BasicLoop(nts, query, max_results, results, count, opened) ==
  IF nts = <<>> \/ CapReached(count, max_results)
  THEN [exc |-> NoExc, results |-> results, procs |-> <<>>, opened |-> opened]
  ELSE LET note_id == Head(nts).key
           file_path == Head(nts).val
           opened1 == Append(opened, file_path)
       IN IF ~(IsFile(file_path) /\ FileOf(file_path).readable)
          THEN BasicLoop(Tail(nts), query, max_results, results, count, opened1)
          ELSE IF Contains(LowerStr(FileOf(file_path).content), query)
          THEN BasicLoop(Tail(nts), query, max_results,
                         Append(results, BasicMatch(note_id, FileOf(file_path).content, query)),
                         count + 1, opened1)
          ELSE BasicLoop(Tail(nts), query, max_results, results, count, opened1)

_basic_search(query, max_results) ==
  BasicLoop(notes, LowerStr(query), max_results, <<>>, 0, <<>>)

\* one line of ripgrep's output: json.loads and the body of the inner try block
RgRecord(line, source_name, source_dir) ==
  IF ~line.valid THEN [tag |-> "skip", exc |-> "JSONDecodeError"]
  ELSE IF ~("type" \in line.keys /\ line.type = "match") THEN [tag |-> "ignore", exc |-> NoExc]
  ELSE IF "data" \notin line.keys THEN [tag |-> "skip", exc |-> "KeyError"]
  ELSE IF line.data_shape # "object" THEN [tag |-> "raise", exc |-> "TypeError"]
  ELSE IF "path" \notin line.data_keys THEN [tag |-> "skip", exc |-> "KeyError"]
  ELSE IF ~IsUnder(line.path, source_dir) THEN [tag |-> "raise", exc |-> "ValueError"]
  ELSE IF "line_number" \notin line.data_keys THEN [tag |-> "skip", exc |-> "KeyError"]
  ELSE IF "lines" \notin line.data_keys THEN [tag |-> "skip", exc |-> "KeyError"]
  ELSE [tag |-> "append", exc |-> NoExc]

RgResult(line, source_name, source_dir) ==
  [note_id |-> NoteId(source_name, RelativeTo(line.path, source_dir)),
   line_number |-> line.line_number, context |-> line.text]

\* for line in output.splitlines() of _ripgrep_search
RECURSIVE RgLines(_, _, _, _, _, _)
RgLines(out, source_name, source_dir, max_results, results, count) ==
  IF out = <<>> \/ CapReached(count, max_results)
  THEN [exc |-> NoExc, results |-> results, count |-> count]
  ELSE LET r == RgRecord(Head(out), source_name, source_dir)
       IN IF r.tag = "raise" THEN [exc |-> r.exc, results |-> results, count |-> count]
          ELSE IF r.tag = "append"
          THEN RgLines(Tail(out), source_name, source_dir, max_results,
                       Append(results, RgResult(Head(out), source_name, source_dir)), count + 1)
          ELSE RgLines(Tail(out), source_name, source_dir, max_results, results, count)

\* for source_name, source_dir in self.index.sources.items() of _ripgrep_search
RECURSIVE RgSources(_, _, _, _, _, _)
RgSources(srcs, max_results, context_lines, results, count, procs) ==
  IF srcs = <<>> \/ CapReached(count, max_results)
  THEN [exc |-> NoExc, results |-> results, procs |-> procs, opened |-> <<>>]
  ELSE LET source_name == Head(srcs).key
           source_dir == Head(srcs).val
           run == tool_output[source_dir]
           procs1 == Append(procs, [tool |-> "rg", dir |-> source_dir, ext |-> <<>>,
                                    count |-> count])
       IN IF run.exit = "ErrorReturnCode"
          THEN RgSources(Tail(srcs), max_results, context_lines, results, count, procs1)
          ELSE IF run.exit # "ok"
          THEN [exc |-> run.exit, results |-> results, procs |-> procs1, opened |-> <<>>]
          ELSE LET r == RgLines(run.out, source_name, source_dir, max_results, results, count)
               IN IF r.exc # NoExc
                  THEN [exc |-> r.exc, results |-> r.results, procs |-> procs1, opened |-> <<>>]
                  ELSE RgSources(Tail(srcs), max_results, context_lines,
                                 r.results, r.count, procs1)

_ripgrep_search(max_results, context_lines) ==
  RgSources(sources, max_results, context_lines, <<>>, 0, <<>>)

\* line.startswith("--")
IsSeparator(line) == StartsWith(line, <<"-", "-">>)

\* the header branch of the grep parser: the new current_result (a sequence of at most
\* one result; empty is None)
GrepHeader(line, source_name, source_dir, current_result) ==
  LET parts == Split(line, ":", 2)
  IN IF Len(parts) < 3 THEN current_result
     ELSE IF ~IsUnder(parts[1], source_dir) THEN current_result
     ELSE IF ~IsInt(parts[2]) THEN current_result
     ELSE << [note_id |-> NoteId(source_name, RelativeTo(parts[1], source_dir)),
              line_number |-> IntOf(parts[2]),
              context |-> parts[3] \o <<NL>>] >>

\* for line in output.splitlines() of _grep_search, and the append after the loop
RECURSIVE GrepLines(_, _, _, _, _, _, _)
GrepLines(out, source_name, source_dir, max_results, results, count, current_result) ==
  IF out = <<>> \/ CapReached(count, max_results)
  THEN IF current_result # <<>>
       THEN [results |-> results \o current_result, count |-> count + 1]
       ELSE [results |-> results, count |-> count]
  ELSE LET line == Head(out)
       IN IF IsSeparator(line)
          THEN IF current_result # <<>>
               THEN GrepLines(Tail(out), source_name, source_dir, max_results,
                              results \o current_result, count + 1, <<>>)
               ELSE GrepLines(Tail(out), source_name, source_dir, max_results,
                              results, count, current_result)
          ELSE IF Find(line, ":") # 0
          THEN GrepLines(Tail(out), source_name, source_dir, max_results, results, count,
                         GrepHeader(line, source_name, source_dir, current_result))
          ELSE IF current_result # <<>>
          THEN GrepLines(Tail(out), source_name, source_dir, max_results, results, count,
                         << [current_result[1] EXCEPT
                               !.context = current_result[1].context \o line \o <<NL>>] >>)
          ELSE GrepLines(Tail(out), source_name, source_dir, max_results, results, count,
                         current_result)

\* for ext in self.index.extensions of _grep_search, in the iteration order exts
RECURSIVE GrepExts(_, _, _, _, _, _, _, _)
GrepExts(exts, source_name, source_dir, max_results, context_lines, results, count, procs) ==
  IF exts = <<>>
  THEN [exc |-> NoExc, results |-> results, count |-> count, procs |-> procs]
  ELSE LET run == tool_output[source_dir]
           procs1 == Append(procs, [tool |-> "grep", dir |-> source_dir, ext |-> Head(exts),
                                    count |-> count])
       IN IF run.exit = "ErrorReturnCode"
          THEN GrepExts(Tail(exts), source_name, source_dir, max_results, context_lines,
                        results, count, procs1)
          ELSE IF run.exit # "ok"
          THEN [exc |-> run.exit, results |-> results, count |-> count, procs |-> procs1]
          ELSE LET r == GrepLines(run.out, source_name, source_dir, max_results,
                                  results, count, <<>>)
               IN GrepExts(Tail(exts), source_name, source_dir, max_results, context_lines,
                           r.results, r.count, procs1)

\* for source_name, source_dir in self.index.sources.items() of _grep_search
RECURSIVE GrepSources(_, _, _, _, _, _, _)
GrepSources(srcs, exts, max_results, context_lines, results, count, procs) ==
  IF srcs = <<>> \/ CapReached(count, max_results)
  THEN [exc |-> NoExc, results |-> results, procs |-> procs, opened |-> <<>>]
  ELSE LET r == GrepExts(exts, Head(srcs).key, Head(srcs).val, max_results, context_lines,
                         results, count, procs)
       IN IF r.exc # NoExc
          THEN [exc |-> r.exc, results |-> r.results, procs |-> r.procs, opened |-> <<>>]
          ELSE GrepSources(Tail(srcs), exts, max_results, context_lines,
                           r.results, r.count, r.procs)

_grep_search(max_results, context_lines, exts) ==
  GrepSources(sources, exts, max_results, context_lines, <<>>, 0, <<>>)

\* search without its try block: the exception of the backend reaches the caller
SearchOutcomeNoCatch(backend, r, query, max_results) ==
  [kind |-> IF r.exc = NoExc THEN "return" ELSE "raise",
   value |-> r.results, backends |-> <<backend>>, procs |-> r.procs, opened |-> <<>>,
   caught |-> NoExc, dropped |-> <<>>]

\* the try block of search: what it does with the outcome r of the external backend it
\* chose. caught is the exception it logs, dropped the results the backend had collected.
SearchOutcome(backend, r, query, max_results) ==
  IF r.exc # NoExc
  THEN LET b == _basic_search(query, max_results)
       IN [kind |-> IF b.exc = NoExc THEN "return" ELSE "raise",
           value |-> b.results, backends |-> <<backend, "basic">>,
           procs |-> r.procs, opened |-> b.opened,
           caught |-> r.exc, dropped |-> r.results]
  ELSE [kind |-> "return", value |-> r.results, backends |-> <<backend>>,
        procs |-> r.procs, opened |-> <<>>, caught |-> NoExc, dropped |-> <<>>]

\* search with the two tools tried in the other order
search_grep_first(query, max_results, context_lines, exts) ==
  IF ~(use_ripgrep \/ use_grep)
  THEN LET b == _basic_search(query, max_results)
       IN [kind |-> "return", value |-> b.results, backends |-> <<"basic">>,
           procs |-> <<>>, opened |-> b.opened, caught |-> NoExc, dropped |-> <<>>]
  ELSE IF use_grep
  THEN SearchOutcome("grep", _grep_search(max_results, context_lines, exts),
                     query, max_results)
  ELSE SearchOutcome("ripgrep", _ripgrep_search(max_results, context_lines),
                     query, max_results)

\* NotesSearcher.search; exts is the iteration order of self.index.extensions
search(query, max_results, context_lines, exts) ==
  IF ~(use_ripgrep \/ use_grep)
  THEN LET b == _basic_search(query, max_results)
       IN [kind |-> IF b.exc = NoExc THEN "return" ELSE "raise",
           value |-> b.results, backends |-> <<"basic">>,
           procs |-> <<>>, opened |-> b.opened, caught |-> NoExc, dropped |-> <<>>]
  ELSE IF use_ripgrep
  THEN SearchOutcome("ripgrep", _ripgrep_search(max_results, context_lines),
                     query, max_results)
  ELSE SearchOutcome("grep", _grep_search(max_results, context_lines, exts),
                     query, max_results)

(* ------------------------------ inputs --------------------------------- *)

DirViaParent == DirQ \o <<"/", "..", "/", "p">>

DirInputs == {DirViaParent, DirQ, DirAbsent}

NameInputs == {<<"s1">>, NoneVal}

ExtInputs ==
  { <<<<"md">>>>, <<<<"md">>, <<"txt">>>>, <<<<".", "md">>>>, <<<<"MD">>>> }

NoteIdInputs == Keys(notes) \cup {<<"s1", ":", "z", ".", "md">>}

ListInputs == {NoneVal, <<"MD">>}

Queries == {<<>>, <<"a">>, <<"B">>, <<"a", NL, "b">>}

ContextLines == {0, 2}

\* the orders in which the set self.index.extensions may be iterated by _grep_search,
\* the one place of search that iterates it one by one
ExtOrders == IF use_grep /\ ~use_ripgrep THEN Perms(extensions) ELSE {<<>>}

(* ------------------------------ actions -------------------------------- *)

Idle == [op |-> "none"]

CanMutate == last = Idle /\ nops < MaxOps

\* NotesIndex.add_source(source_dir, source_name)
add_source(source_dir, source_name) ==
  /\ CanMutate
  /\ LET name == IF source_name = NoneVal THEN PathName(source_dir) ELSE source_name
         dir == Resolve(source_dir)
     IN /\ sources' = DictPut(sources, name, dir)
        /\ last' = [op |-> "add_source", dir |-> dir, name |-> name, kind |-> "return"]
  /\ nops' = nops + 1
  /\ UNCHANGED <<notes, extensions, use_ripgrep, use_grep, tool_output>>

\* NotesServer.add_notes_dir(dir_path, name)
add_notes_dir(dir_path, name) ==
  /\ CanMutate
  /\ LET path == Resolve(dir_path)
         nm == IF name = NoneVal THEN PathName(path) ELSE name
     IN IF ~IsDir(path)
        THEN /\ last' = [op |-> "add_notes_dir", dir |-> path, name |-> nm, kind |-> "raise"]
             /\ UNCHANGED sources
        ELSE /\ sources' = DictPut(sources, nm, path)
             /\ last' = [op |-> "add_notes_dir", dir |-> path, name |-> nm, kind |-> "return"]
  /\ nops' = nops + 1
  /\ UNCHANGED <<notes, extensions, use_ripgrep, use_grep, tool_output>>

\* NotesIndex.index_sources(extensions); order is the iteration order of the set
index_sources(exts, order) ==
  /\ CanMutate
  /\ extensions' = NormExts(exts)
  /\ notes' = IndexAll(notes, sources, order)
  /\ last' = [op |-> "index_sources", exts |-> exts]
  /\ nops' = nops + 1
  /\ UNCHANGED <<sources, use_ripgrep, use_grep, tool_output>>

\* NotesServer.index_notes(extensions)
index_notes(exts) ==
  /\ CanMutate
  /\ notes' = IndexAll(notes, sources, exts)
  /\ extensions' = NormExts(exts)
  /\ last' = [op |-> "index_notes", exts |-> exts]
  /\ nops' = nops + 1
  /\ UNCHANGED <<sources, use_ripgrep, use_grep, tool_output>>

\* the note_read tool
ReadNote(note_id) ==
  /\ last = Idle
  /\ last' = [op |-> "read_note", note_id |-> note_id, out |-> read_note(note_id)]
  /\ UNCHANGED <<notes, sources, extensions, use_ripgrep, use_grep, tool_output, nops>>

\* the note_search tool
Search(query, max_results, context_lines, exts) ==
  /\ last = Idle
  /\ last' = [op |-> "search", query |-> query, max_results |-> max_results,
              out |-> search(query, max_results, context_lines, exts)]
  /\ UNCHANGED <<notes, sources, extensions, use_ripgrep, use_grep, tool_output, nops>>

\* the note_list tool
ListNotes(query) ==
  /\ last = Idle
  /\ last' = [op |-> "list_notes", query |-> query, value |-> list_notes(query)]
  /\ UNCHANGED <<notes, sources, extensions, use_ripgrep, use_grep, tool_output, nops>>

\* the caller takes the result of the call
Return ==
  /\ last # Idle
  /\ last' = Idle
  /\ UNCHANGED <<notes, sources, extensions, use_ripgrep, use_grep, tool_output, nops>>

AllDirs == {Resolve(d) : d \in DirInputs}

QuietBehaviour == [exit |-> "ok", out |-> <<>>]

\* a server just constructed, on a host that has neither rg nor grep: the setup calls
\* and the tools in any order (the hosts with tools are the subject of SpecServe)
Init ==
  /\ notes = <<>>
  /\ sources = <<>>
  /\ extensions = {}
  /\ use_ripgrep = FALSE
  /\ use_grep = FALSE
  /\ tool_output = [d \in AllDirs |-> QuietBehaviour]
  /\ last = Idle
  /\ nops = 0

Next ==
  \/ \E d \in DirInputs, n \in NameInputs : add_source(d, n)
  \/ \E d \in DirInputs, n \in NameInputs : add_notes_dir(d, n)
  \/ \E e \in ExtInputs : \E order \in Perms(NormExts(e)) : index_sources(e, order)
  \/ \E e \in ExtInputs : index_notes(e)
  \/ \E id \in NoteIdInputs : ReadNote(id)
  \/ \E q \in ListInputs : ListNotes(q)
  \/ \E q \in Queries, k \in 1..MaxResults, c \in ContextLines :
        \E order \in ExtOrders : Search(q, k, c, order)
  \/ Return

Spec == Init /\ [][Next]_vars

(* ----------------------- the serving phase (cli.serve) ------------------ *)

\* the loop of setup_server over dirs: add_notes_dir(dir_path) with the default name
RECURSIVE SetupSources(_, _)
SetupSources(srcs, dirs) ==
  IF dirs = <<>> THEN srcs
  ELSE LET path == Resolve(Head(dirs))
       IN IF ~IsDir(path) THEN srcs
          ELSE SetupSources(DictPut(srcs, PathName(path), path), Tail(dirs))

\* the command lines served: the directories and the --exts list
ServeArgs ==
  { [dirs |-> <<DirViaParent, DirQ>>, exts |-> <<<<"md">>, <<"txt">>>>],
    [dirs |-> <<DirQ, DirP>>, exts |-> <<<<"md">>>>],
    [dirs |-> <<DirQ>>, exts |-> <<<<"MD">>>>] }

HdrP == PathA \o <<":", "2", ":", "h">>

HdrQ == <<"/", "q", "/", "d", ".", "md", ":", "1", ":", "h">>

\* lines grep may print
GrepAlphabet ==
  { <<"-", "-">>, HdrP, HdrQ, <<"h">>, PathA \o <<":", "n", ":", "h">>, <<"h", ":", "h">> }

RgMatch(path, keys, data_shape, data_keys) ==
  [valid |-> TRUE, keys |-> keys, type |-> "match", data_shape |-> data_shape,
   data_keys |-> data_keys, path |-> path, line_number |-> 2, text |-> <<"h", NL>>]

\* lines ripgrep may print, as json.loads sees them
RgAlphabet ==
  { [RgMatch(PathA, {}, "object", {}) EXCEPT !.valid = FALSE],
    [RgMatch(PathA, {"type", "data"}, "object", {"path"}) EXCEPT !.type = "begin"],
    RgMatch(PathA, {"type", "data"}, "object", {"path", "line_number", "lines"}),
    RgMatch(<<"/", "q", "/", "d", ".", "md">>, {"type", "data"}, "object",
            {"path", "line_number", "lines"}),
    RgMatch(PathA, {"type", "data"}, "object", {"path", "lines"}),
    RgMatch(PathA, {"type", "data"}, "string", {}) }

\* what one run of the tool does: its output, or the exception of the sh call
Behaviours(alphabet) ==
  {[exit |-> "ok", out |-> o] : o \in SeqsUpTo(alphabet, MaxOutLines)}
    \cup {[exit |-> "ErrorReturnCode", out |-> <<>>], [exit |-> "CommandNotFound", out |-> <<>>]}

\* what the tool does in each directory it is run in: at most MaxOutLines lines in all
ToolEnvs(alphabet, dirs) ==
  { [d \in AllDirs |-> IF d = DirP THEN b[1] ELSE IF d = DirQ THEN b[2] ELSE QuietBehaviour] :
      b \in { c \in Behaviours(alphabet) \X Behaviours(alphabet) :
                /\ Len(c[1].out) + Len(c[2].out) <= MaxOutLines
                /\ DirP \notin dirs => c[1] = QuietBehaviour
                /\ DirQ \notin dirs => c[2] = QuietBehaviour } }

SourceDirs == {sources[i].val : i \in 1..Len(sources)}

\* the server as cli.serve leaves it before server.run(): the sources added, one scan
\* done, any outcome of the probe for rg and grep, and any behaviour of the tool chosen
InitServe ==
  /\ \E a \in ServeArgs :
       /\ sources = SetupSources(<<>>, a.dirs)
       /\ notes = IndexAll(<<>>, SetupSources(<<>>, a.dirs), a.exts)
       /\ extensions = NormExts(a.exts)
  /\ use_ripgrep \in BOOLEAN
  /\ use_grep \in BOOLEAN
  /\ tool_output \in IF use_ripgrep THEN ToolEnvs(RgAlphabet, SourceDirs)
                     ELSE IF use_grep THEN ToolEnvs(GrepAlphabet, SourceDirs)
                     ELSE {[d \in AllDirs |-> QuietBehaviour]}
  /\ last = Idle
  /\ nops = 0

NextServe ==
  \/ \E q \in Queries, k \in 1..MaxResults, c \in ContextLines :
        \E order \in ExtOrders : Search(q, k, c, order)
  \/ \E id \in NoteIdInputs : ReadNote(id)
  \/ \E q \in ListInputs : ListNotes(q)
  \/ Return

SpecServe == InitServe /\ [][NextServe]_vars

(* ------------------------------ properties ------------------------------ *)

Searched == last.op = "search"

\* the extension of a file name: what follows its last "."
FileExt(path) == SubSeq(PathName(path), RFind(PathName(path), ".") + 1, Len(PathName(path)))

Readable(path) == IsFile(path) /\ FileOf(path).readable

\* C1: search returns at most max_results results, on every backend and for every
\* output of the tools.
CapInvariant == Searched => Len(last.out.value) <= last.max_results

\* C1 witness: grep printed no separator, so every result was appended after the line
\* loop; the cap was filled and grep was then run again without a new test of the count
CapWitness ==
  /\ Searched
  /\ last.out.backends = <<"grep">>
  /\ Len(last.out.value) = last.max_results
  /\ \A d \in SourceDirs : \A i \in 1..Len(tool_output[d].out) :
        ~IsSeparator(tool_output[d].out[i])
  /\ \E i \in 1..Len(last.out.procs) : last.out.procs[i].count = last.max_results

\* C2: search returns a sequence and never raises, whatever the tools do; when no
\* readable note contains the query the in-memory scan returns the empty sequence.
SearchNeverRaises ==
  Searched =>
    /\ last.out.kind = "return"
    /\ ( /\ last.out.backends[Len(last.out.backends)] = "basic"
         /\ \A i \in 1..Len(notes) :
              Readable(notes[i].val) =>
                ~Contains(LowerStr(FileOf(notes[i].val).content), LowerStr(last.query)) )
       => last.out.value = <<>>

\* C2 witness: the tool failed, the scan met an unreadable file and nothing matched
NeverRaisesWitness ==
  /\ Searched
  /\ last.out.caught # NoExc
  /\ last.out.value = <<>>
  /\ \E i \in 1..Len(last.out.opened) : ~Readable(last.out.opened[i])

\* C3: one search runs ripgrep only if ripgrep was detected, else grep only if grep was
\* detected, else the in-memory scan only; when the external backend raises, the
\* in-memory scan runs once and its result is the whole result.
BackendChain ==
  Searched =>
    LET o == last.out
    IN /\ use_ripgrep =>
            o.backends[1] = "ripgrep" /\ \A i \in 1..Len(o.procs) : o.procs[i].tool = "rg"
       /\ (~use_ripgrep /\ use_grep) =>
            o.backends[1] = "grep" /\ \A i \in 1..Len(o.procs) : o.procs[i].tool = "grep"
       /\ (~use_ripgrep /\ ~use_grep) => o.backends = <<"basic">> /\ o.procs = <<>>
       /\ Cardinality({i \in 1..Len(o.backends) : o.backends[i] = "basic"}) <= 1
       /\ o.caught = NoExc => Len(o.backends) = 1
       /\ o.caught # NoExc =>
            /\ Len(o.backends) = 2 /\ o.backends[2] = "basic"
            /\ o.value = _basic_search(last.query, last.max_results).results

\* C3 witness: both tools detected, ripgrep raised after it had collected results, and
\* the scan's result was returned
BackendChainWitness ==
  /\ Searched
  /\ use_ripgrep /\ use_grep
  /\ last.out.backends = <<"ripgrep", "basic">>
  /\ last.out.dropped # <<>>
  /\ last.out.value # <<>>

\* the lines (1-based) of content that contain query, case-insensitively
MatchingLines(content, query) ==
  {i \in 1..Len(SplitLines(content)) :
     Contains(LowerStr(SplitLines(content)[i]), LowerStr(query))}

\* the notes a brute-force scan reports: readable, content contains query
RECURSIVE MatchingNotes(_, _)
MatchingNotes(nts, query) ==
  IF nts = <<>> THEN <<>>
  ELSE (IF /\ Readable(Head(nts).val)
           /\ Contains(LowerStr(FileOf(Head(nts).val).content), LowerStr(query))
        THEN <<Head(nts)>> ELSE <<>>) \o MatchingNotes(Tail(nts), query)

\* C4: without tools, search reports the first max_results matching notes in index
\* order, each with the number of its first line that contains the query.
BasicEqualsReference ==
  (Searched /\ ~use_ripgrep /\ ~use_grep) =>
    LET ref == MatchingNotes(notes, last.query)
        v == last.out.value
    IN /\ Len(v) = Min(Len(ref), last.max_results)
       /\ \A i \in 1..Len(v) :
            /\ v[i].note_id = ref[i].key
            /\ v[i].line_number \in MatchingLines(FileOf(ref[i].val).content, last.query)
            /\ \A j \in MatchingLines(FileOf(ref[i].val).content, last.query) :
                 v[i].line_number <= j

\* C5: every note is a file whose extension is in the index's extension set, and so is
\* every identifier that list and the in-memory search return.
ExtensionFiltering ==
  /\ \A i \in 1..Len(notes) : LowerStr(FileExt(notes[i].val)) \in extensions
  /\ last.op = "list_notes" =>
       \A i \in 1..Len(last.value) : LowerStr(FileExt(last.value[i])) \in extensions
  /\ (Searched /\ last.out.backends[Len(last.out.backends)] = "basic") =>
       \A i \in 1..Len(last.out.value) :
          LowerStr(FileExt(last.out.value[i].note_id)) \in extensions

\* C6: reading an identifier that is not in the index raises the not-found error and
\* returns nothing, leaves the index as it was, and the error differs from the one of a
\* file that cannot be read.
ReadAbsentFails ==
  [][ last'.op = "read_note" =>
        /\ <<notes', sources', extensions'>> = <<notes, sources, extensions>>
        /\ last'.note_id \notin Keys(notes) =>
             last'.out.kind = "raise" /\ last'.out.msg = "not found in index"
        /\ (last'.note_id \in Keys(notes) /\ last'.out.kind = "raise") =>
             last'.out.msg # "not found in index" ]_vars

\* C6 witness: a read of an absent identifier failed on a non-empty index
ReadAbsentWitness ==
  /\ last.op = "read_note"
  /\ notes # <<>>
  /\ last.note_id \notin Keys(notes)
  /\ last.out.kind = "raise"

\* C7: right after a scan, every file under a registered root whose extension is in the
\* extension set is found under its identifier, with its absolute path.
IdentifierRoundTrip ==
  last.op \in {"index_sources", "index_notes"} =>
    \A i \in 1..Len(sources), j \in 1..Len(FSEntries) :
      ( /\ FSEntries[j].kind = "file"
        /\ FSEntries[j].path # sources[i].val
        /\ IsUnder(FSEntries[j].path, sources[i].val)
        /\ FileExt(FSEntries[j].path) \in extensions )
      => LET r == get_note_path(NoteId(sources[i].key,
                                       RelativeTo(FSEntries[j].path, sources[i].val)))
         IN r.kind = "return" /\ r.value = FSEntries[j].path

\* C8: registering a root that is not an existing directory fails and leaves the
\* sources alone, through the index and through the server; sources hold directories only.
RegisterRejectsInvalid ==
  /\ (last.op \in {"add_source", "add_notes_dir"} /\ ~IsDir(last.dir)) => last.kind = "raise"
  /\ \A i \in 1..Len(sources) : IsDir(sources[i].val)

\* C9: every result of search has a line number of at least 1.
LineNumbersPositive ==
  Searched => \A i \in 1..Len(last.out.value) : last.out.value[i].line_number >= 1

\* the position, in registration order, of the source an identifier belongs to
SourcePos(note_id) == KeyPos(sources, SubSeq(note_id, 1, Find(note_id, ":") - 1))

\* C10: the results of search are grouped by source, the sources in registration order.
GroupedBySource ==
  Searched =>
    \A i \in 1..Len(last.out.value), j \in 1..Len(last.out.value) :
      i < j => SourcePos(last.out.value[i].note_id) <= SourcePos(last.out.value[j].note_id)

\* the results of the records of one ripgrep output that can be processed
RECURSIVE RgGoodRecords(_, _, _)
RgGoodRecords(out, source_name, source_dir) ==
  IF out = <<>> THEN <<>>
  ELSE (IF RgRecord(Head(out), source_name, source_dir).tag = "append"
        THEN <<RgResult(Head(out), source_name, source_dir)>> ELSE <<>>)
       \o RgGoodRecords(Tail(out), source_name, source_dir)

\* the same over the sources in registration order; a run that exits with an error
\* status prints nothing
RECURSIVE RgGoodSources(_)
RgGoodSources(srcs) ==
  IF srcs = <<>> THEN <<>>
  ELSE RgGoodRecords(tool_output[Head(srcs).val].out, Head(srcs).key, Head(srcs).val)
       \o RgGoodSources(Tail(srcs))

\* every run of ripgrep ends, with a zero or a non-zero exit status
RgRunsEnd == \A d \in SourceDirs : tool_output[d].exit \in {"ok", "ErrorReturnCode"}

\* C11: when every run of ripgrep ends, a record that cannot be processed (invalid JSON,
\* missing field, field of the wrong shape, path outside the source root) is skipped
\* alone: ripgrep's backend answers the search, with the first max_results results of
\* the records that can be processed, and the in-memory scan is not run.
RecordFailureSkipsRecord ==
  (Searched /\ use_ripgrep /\ RgRunsEnd) =>
    /\ last.out.backends = <<"ripgrep">>
    /\ last.out.caught = NoExc
    /\ last.out.value = SubSeq(RgGoodSources(sources), 1,
                               Min(Len(RgGoodSources(sources)), last.max_results))

\* a well-formed header line of grep's output: path under the source root, numeric line
\* number, content
WellFormedHeader(line, source_dir) ==
  /\ ~IsSeparator(line)
  /\ Find(line, ":") # 0
  /\ Len(Split(line, ":", 2)) >= 3
  /\ IsUnder(Split(line, ":", 2)[1], source_dir)
  /\ IsInt(Split(line, ":", 2)[2])

\* the results a parser emits that starts a result at every well-formed header and emits
\* it once, at the next separator, at the next header or at the end of the output
RECURSIVE GrepEmitted(_, _, _, _)
GrepEmitted(out, source_name, source_dir, pending) ==
  IF out = <<>> THEN pending
  ELSE LET line == Head(out)
       IN IF IsSeparator(line)
          THEN pending \o GrepEmitted(Tail(out), source_name, source_dir, <<>>)
          ELSE IF WellFormedHeader(line, source_dir)
          THEN pending \o GrepEmitted(Tail(out), source_name, source_dir,
                                      GrepHeader(line, source_name, source_dir, <<>>))
          ELSE IF Find(line, ":") = 0 /\ pending # <<>>
          THEN GrepEmitted(Tail(out), source_name, source_dir,
                           << [pending[1] EXCEPT
                                 !.context = pending[1].context \o line \o <<NL>>] >>)
          ELSE GrepEmitted(Tail(out), source_name, source_dir, pending)

\* n copies of a sequence
RECURSIVE Repeat(_, _)
Repeat(s, n) == IF n = 0 THEN <<>> ELSE s \o Repeat(s, n - 1)

\* the same over the sources in registration order, grep run once per extension
RECURSIVE GrepEmittedSources(_)
GrepEmittedSources(srcs) ==
  IF srcs = <<>> THEN <<>>
  ELSE Repeat(GrepEmitted(tool_output[Head(srcs).val].out, Head(srcs).key, Head(srcs).val,
                          <<>>),
              Cardinality(extensions))
       \o GrepEmittedSources(Tail(srcs))

GrepRan == Searched /\ ~use_ripgrep /\ use_grep /\ last.out.caught = NoExc

\* C12: when grep answers the search and the cap is not reached before the last header
\* (the headers are no more than max_results), every well-formed header gives exactly one
\* result, with the context lines that follow it, also when it follows another header
\* with no separator in between; malformed headers change nothing.
HeadersEmittedOnce ==
  (GrepRan /\ Len(GrepEmittedSources(sources)) <= last.max_results) =>
    last.out.value = GrepEmittedSources(sources)

\* C13: within one search, every external process is started with fewer than max_results
\* results collected, and when the in-memory scan has collected max_results results the
\* last file it opened is the file of its last result.
EarlyTermination ==
  Searched =>
    LET o == last.out
    IN /\ \A i \in 1..Len(o.procs) : o.procs[i].count < last.max_results
       /\ ( /\ o.backends[Len(o.backends)] = "basic"
            /\ Len(o.value) = last.max_results )
          => /\ o.opened # <<>>
             /\ o.opened[Len(o.opened)] = get_note_path(o.value[Len(o.value)].note_id).value

\* the in-memory scan answered the search
BasicRan == Searched /\ last.out.backends[Len(last.out.backends)] = "basic"

\* the results are one per matching note, in index order, within the cap, and for a
\* match on line n (1-based) the context is the lines from max(1, n - before) through
\* min(L, n + 2) of the note's file, joined by newlines
WindowOf(before) ==
  LET ref == MatchingNotes(notes, last.query)
      v == last.out.value
  IN /\ Len(v) = Min(Len(ref), last.max_results)
     /\ \A i \in 1..Len(v) :
          LET lines == SplitLines(FileOf(ref[i].val).content)
              n == v[i].line_number
          IN /\ v[i].note_id = ref[i].key
             /\ n >= 1 =>
                  v[i].context = JoinLines(SubSeq(lines, Max(1, n - before),
                                                  Min(Len(lines), n + 2)))

\* C14 as stated: the context of the in-memory scan is up to 3 lines before the
\* matching line, the matching line and up to 2 lines after it, whatever context_lines
\* is, and there is exactly one result per matching file.
ContextThreeBefore == BasicRan => WindowOf(3)

\* C14 amended: the context of the in-memory scan is up to 2 lines before the matching
\* line, the matching line and up to 2 lines after it (the lines max(1, n-2) through
\* min(L, n+2)), whatever context_lines is, and there is exactly one result per
\* matching note within the cap.
ContextTwoBefore == BasicRan => WindowOf(2)

\* C14 witness: a match on line 4 or later with lines after it: the window starts at
\* line n - 2 and leaves out the first line of the file
ContextWitness ==
  /\ BasicRan
  /\ \E i \in 1..Len(last.out.value) :
       LET r == last.out.value[i]
           lines == SplitLines(FileOf(get_note_path(r.note_id).value).content)
       IN /\ r.line_number >= 4
          /\ r.line_number < Len(lines)
          /\ r.context = JoinLines(SubSeq(lines, r.line_number - 2, Len(lines)))

====
